---- MODULE Spec2Model ----
(***************************************************************************)
(* Model of glottolog3/scripts/compute_tree_changes.py: the reconciliation *)
(* of the old classification tree (database) with the new classification   *)
(* given by lff.txt and lof.txt.                                           *)
(*                                                                         *)
(* Representation choices:                                                 *)
(*  - a code is a sequence of one-character strings;                       *)
(*  - a branch is a sequence of names; None and the empty tuple (both      *)
(*    false on lines 344, 392, 415) are the empty sequence;                *)
(*  - a sorted tuple of distinct leaf codes is a set of codes;             *)
(*  - an OrderedDict is a function plus the sequence of its keys;          *)
(*  - a pk that is None is NoPk;                                           *)
(*  - an exception that leaves main is pc = "aborted".                     *)
(***************************************************************************)
EXTENDS Integers, Sequences, FiniteSets, TLC

VARIABLES
    pc,              \* position of main
    lff, lof,        \* the lines of lff.txt / lof.txt, once read
    pos,             \* the lines of the file being parsed that split_families has consumed
    families, famorder,     \* OrderedDict branch -> leaf codes
    languages, langorder,   \* OrderedDict code -> [branch, status, name, comment]
    isolate_names, collapsed_names,
    names,           \* name -> list of branches
    codes,           \* database: hid -> pk
    oldnodes,        \* database: rows of the old family nodes, with their leafs
    maxid,
    ncodes,
    languoids,       \* the instruction list
    rnodes, urnodes, leafsets,
    rglnodes,        \* old leafs -> list of old nodes
    pending,         \* items of rglnodes the matching loop has not visited yet
    todo,            \* list of Migrations
    branch_to_pk,
    written          \* languoids.json: <<>> until written, then <<languoids>>

vars == <<pc, lff, lof, pos, families, famorder, languages, langorder, isolate_names,
          collapsed_names, names, codes, oldnodes, maxid, ncodes, languoids, rnodes,
          urnodes, leafsets, rglnodes, pending, todo, branch_to_pk, written>>

---------------------------------------------------------------------------
(* Bounds of the model. *)

MaxLines == 3
MaxLofLines == 2
MaxOld == 2
MaxNodes == 3
SmallLeafs == 3
BigLeafs == 12

(* Program constants. *)

NoPk == 0
CodeLen == 3
MinBig == 10
TolDiv == 10

---------------------------------------------------------------------------
(* Generic helpers. *)

Empty == [x \in {} |-> {}]

Put(f, k, v) == [x \in DOMAIN f \cup {k} |-> IF x = k THEN v ELSE f[x]]

Del(f, k) == [x \in DOMAIN f \ {k} |-> f[x]]

Range(s) == {s[i] : i \in DOMAIN s}

Last(s) == s[Len(s)]

Front(s) == SubSeq(s, 1, Len(s) - 1)

Perms(S) ==
    {s \in [1..Cardinality(S) -> S] : \A i, j \in 1..Cardinality(S) : i # j => s[i] # s[j]}

SeqsUpTo(S, n) == UNION {[1..k -> S] : k \in 1..n}

Abs(n) == IF n < 0 THEN -n ELSE n

---------------------------------------------------------------------------
(* split_families: the leaf line.                                          *)

NOCODE_dash == <<"N", "O", "C", "O", "D", "E", "-">>

NOCODE_us == <<"N", "O", "C", "O", "D", "E", "_">>

StripChars == {"\\", "\"", "'"}

PatternChars == {"a", "b", "c", "d", "x", "y", "N", "O", "C", "D", "E", "-", "_"}

RECURSIVE ReplaceNocode(_)
ReplaceNocode(s) ==
    IF Len(s) < 7 THEN s
    ELSE IF SubSeq(s, 1, 7) = NOCODE_dash
         THEN NOCODE_us \o ReplaceNocode(SubSeq(s, 8, Len(s)))
         ELSE <<s[1]>> \o ReplaceNocode(Tail(s))

CleanCode(raw) == ReplaceNocode(SelectSeq(raw, LAMBDA c : c \notin StripChars))

NOCODE_PATTERN(code) ==
    /\ Len(code) > 7
    /\ SubSeq(code, 1, 7) = NOCODE_us
    /\ \A i \in 8..Len(code) : code[i] \in PatternChars

(* a parser that accepts every code *)
AnyCode(code) == TRUE

CodeOk(code) == code # <<>> /\ (Len(code) = CodeLen \/ NOCODE_PATTERN(code))

(* the dict family[1] of a block: code -> name, a later line replacing an  *)
(* earlier one with the same code                                          *)
RECURSIVE BlockLeafs(_)
BlockLeafs(lines) ==
    IF lines = <<>> THEN Empty
    ELSE Put(BlockLeafs(Front(lines)), CleanCode(Last(lines).code), Last(lines).name)

BlockOk(lines) == \A i \in DOMAIN lines : CodeOk(CleanCode(lines[i].code))

(* the codes of a block in the order of their first line *)
RECURSIVE BlockCodes(_)
BlockCodes(lines) ==
    IF lines = <<>> THEN <<>>
    ELSE LET c == CleanCode(Last(lines).code)
             f == BlockCodes(Front(lines))
         IN  IF c \in Range(f) THEN f ELSE Append(f, c)

---------------------------------------------------------------------------
(* split_families.normalized_branch                                        *)

name_map ==
    [n \in {"Deaf Sign Language", "Unclassifiable", "Artificial Language",
            "Mixed Language", "Pidgin"} |->
        CASE n = "Deaf Sign Language" -> "Sign Languages"
          [] n = "Unclassifiable" -> "Unclassified"
          [] OTHER -> n]

MarkerStatus(n) ==
    CASE n = "Spurious" -> "spurious"
      [] n = "Unattested" -> "unattested"
      [] OTHER -> "established"

normalized_branch(line) ==
    IF line[1] \in DOMAIN name_map
    THEN [branch |-> <<name_map[line[1]]>>, status |-> "established",
          comment |-> Tail(line)]
    ELSE IF line[1] \in {"Spurious", "Speech Register", "Unattested"}
    THEN LET status == MarkerStatus(line[1])
             b1 == IF line[1] = "Unattested" /\ Len(line) = 1
                   THEN <<"Unclassified">> ELSE Tail(line)
             retired == b1 # <<>> /\ b1[1] = "Retired"
         IN  [branch |-> IF retired THEN Tail(b1) ELSE b1,
              status |-> IF ~retired THEN status
                         ELSE CASE status = "spurious" -> "spurious retired"
                                [] status = "unattested" -> "unattested retired"
                                [] OTHER -> "established retired",
              comment |-> <<>>]
    ELSE [branch |-> line, status |-> "established", comment |-> <<>>]

---------------------------------------------------------------------------
(* parse_families: one yielded (branch, leafs) pair.                       *)

(* a parser that records the leafs for the full branch only *)
LeafOnlyPrefixes(branch) == IF branch = <<>> THEN <<>> ELSE <<branch>>

Prefixes(branch) == [i \in 1..Len(branch) |-> SubSeq(branch, 1, i)]

RECURSIVE AddToPrefixes(_, _, _)
AddToPrefixes(ps, leafs, fam) ==
    IF ps = <<>> THEN fam
    ELSE LET p == Head(ps)
             f == [families |->
                      IF p \in DOMAIN fam.families
                      THEN [fam.families EXCEPT ![p] = @ \cup leafs]
                      ELSE Put(fam.families, p, leafs),
                   famorder |->
                      IF p \in DOMAIN fam.families THEN fam.famorder
                      ELSE Append(fam.famorder, p)]
         IN  AddToPrefixes(Tail(ps), leafs, f)

RECURSIVE RecordLanguages(_, _, _, _)
RecordLanguages(cs, leafs, nb, lang) ==
    IF cs = <<>> THEN lang
    ELSE LET c == Head(cs)
             l == [languages |->
                      Put(lang.languages, c,
                          [branch |-> nb.branch, status |-> nb.status,
                           name |-> leafs[c], comment |-> nb.comment]),
                   langorder |->
                      IF c \in DOMAIN lang.languages THEN lang.langorder
                      ELSE Append(lang.langorder, c)]
         IN  RecordLanguages(Tail(cs), leafs, nb, l)

ParsedFamilies(block) ==
    AddToPrefixes(Prefixes(normalized_branch(block.header).branch),
                  DOMAIN BlockLeafs(block.leafs),
                  [families |-> families, famorder |-> famorder])

ParsedLanguages(block) ==
    RecordLanguages(BlockCodes(block.leafs), BlockLeafs(block.leafs),
                    normalized_branch(block.header),
                    [languages |-> languages, langorder |-> langorder])

---------------------------------------------------------------------------
(* main: handle isolates / collapse families with exactly one leaf.        *)

TheLeaf(S) == CHOOSE c \in S : TRUE

CollapseTarget(key) == IF Len(key) = 1 THEN <<>> ELSE Front(key)

RECURSIVE Collapsed(_, _)
Collapsed(keys, st) ==
    IF keys = <<>> THEN st
    ELSE LET key == Head(keys)
         IN  IF Cardinality(st.families[key]) # 1 THEN Collapsed(Tail(keys), st)
             ELSE LET code == TheLeaf(st.families[key])
                  IN  Collapsed(Tail(keys),
                         [families |-> Del(st.families, key),
                          languages |->
                              [st.languages EXCEPT ![code].branch = CollapseTarget(key)],
                          isolate_names |->
                              IF Len(key) = 1 THEN Put(st.isolate_names, key[1], code)
                              ELSE st.isolate_names,
                          collapsed_names |->
                              IF Len(key) = 1 THEN st.collapsed_names
                              ELSE Put(st.collapsed_names, Last(key), code)])

(* main: lookup of families by name *)
RECURSIVE NamesOf(_)
NamesOf(branches) ==
    IF branches = <<>> THEN Empty
    ELSE LET ns == NamesOf(Front(branches))
             b == Last(branches)
             n == Last(b)
         IN  IF n \in DOMAIN ns THEN [ns EXCEPT ![n] = Append(@, b)]
             ELSE Put(ns, n, <<b>>)

---------------------------------------------------------------------------
(* languoid(): an instruction.  The keys id, longitude and latitude come   *)
(* from glottocode() and coordinates.tab and are left out.                 *)

languoid(pk, level) ==
    [pk |-> pk, level |-> level, active |-> TRUE, father_pk |-> NoPk,
     status |-> "established", replacement |-> NoPk, name |-> "", hname |-> "",
     comment |-> <<>>]

(* main: insertion of the H-languages that are not in the database *)
RECURSIVE NewLeaves(_, _)
NewLeaves(cs, st) ==
    IF cs = <<>> THEN st
    ELSE LET code == Head(cs)
         IN  IF code \in DOMAIN codes THEN NewLeaves(Tail(cs), st)
             ELSE NewLeaves(Tail(cs),
                    [maxid |-> st.maxid + 1,
                     ncodes |-> Put(st.ncodes, code, st.maxid + 1),
                     languoids |-> Append(st.languoids,
                         [languoid(st.maxid + 1, "language") EXCEPT
                             !.name = languages[code].name,
                             !.hname = languages[code].name,
                             !.status = languages[code].status,
                             !.comment = languages[code].comment])])

---------------------------------------------------------------------------
(* main: rnodes and urnodes.                                               *)

UnclassifiedNames == {"Unclassified", "Unclassified A"}

StartsWithUnclassified(n) == n \in UnclassifiedNames

KnownLeafs(family) == {c \in families[family] : c \in DOMAIN codes}

RECURSIVE Rnodes(_, _)
Rnodes(fams, st) ==
    IF fams = <<>> \/ ~st.ok THEN st
    ELSE LET family == Head(fams)
             leafs == KnownLeafs(family)
         IN  IF family[1] \in {"Speech Register", "Spurious"} \/ leafs = {}
             THEN [st EXCEPT !.ok = FALSE]
             ELSE IF leafs \in DOMAIN st.rnodes
             THEN IF /\ \E i \in DOMAIN family : StartsWithUnclassified(family[i])
                     /\ Range(st.rnodes[leafs]) \subseteq Range(family)
                     /\ leafs \notin DOMAIN st.urnodes
                  THEN Rnodes(Tail(fams),
                              [st EXCEPT !.urnodes = Put(st.urnodes, leafs, family)])
                  ELSE [st EXCEPT !.ok = FALSE]
             ELSE Rnodes(Tail(fams), [st EXCEPT !.rnodes = Put(st.rnodes, leafs, family)])

(* the lists that sorted(rnodes.keys(), key=len) can return: the order of  *)
(* the keys of a dict among those of the same length is not specified      *)
Leafsets(rn) ==
    {s \in Perms(DOMAIN rn) :
        \A i, j \in DOMAIN s : i < j => Cardinality(s[i]) <= Cardinality(s[j])}

---------------------------------------------------------------------------
(* Migration *)

Migration(pk, hid, rename, pointer) ==
    [pk |-> pk, hid |-> hid, rename |-> rename, pointer |-> pointer]

(* main: the old family nodes without leafs are retired, with a pointer    *)
(* when the name is that of exactly one family                             *)
UniqueName(n, nms) == n \in DOMAIN nms /\ Len(nms[n]) = 1

RetireEmpty(row, nms) ==
    IF UniqueName(row.name, nms)
    THEN Migration(row.pk, <<>>, FALSE, nms[row.name][1])
    ELSE Migration(row.pk, <<>>, FALSE, <<>>)

RECURSIVE ByPk(_)
ByPk(rows) ==
    IF rows = {} THEN <<>>
    ELSE LET r == CHOOSE x \in rows : \A y \in rows : x.pk <= y.pk
         IN  <<r>> \o ByPk(rows \ {r})

node(row) == [pk |-> row.pk, name |-> row.name, father_pk |-> row.father_pk]

---------------------------------------------------------------------------
(* match_nodes                                                             *)

(* the index of the first true element of a sequence of booleans, 0 if    *)
(* there is none: the element at which a loop with a break or return stops *)
FirstTrue(bs) ==
    IF \E i \in DOMAIN bs : bs[i]
    THEN CHOOSE i \in DOMAIN bs : bs[i] /\ \A j \in 1..(i - 1) : ~bs[j]
    ELSE 0

(* lines 137-141 without the exchange of line 139 *)
PairAsGiven(nodes) ==
    IF nodes[1].father_pk = nodes[2].pk THEN <<nodes[2], nodes[1]>> ELSE <<>>

(* lines 137-141: <<node, unode>>, or <<>> when the assertion fails *)
PairByFather(nodes) ==
    LET swap == nodes[1].father_pk # nodes[2].pk
        unode == IF swap THEN nodes[2] ELSE nodes[1]
        nd == IF swap THEN nodes[1] ELSE nodes[2]
    IN  IF unode.father_pk = nd.pk THEN <<nd, unode>> ELSE <<>>

(* the other nodes retired without a pointer *)
RetiredUnlinked(leafs, nodes, rn) ==
    <<Migration(nodes[1].pk, rn[leafs], Len(nodes) > 1, <<>>)>> \o
    [i \in 1..(Len(nodes) - 1) |-> Migration(nodes[i + 1].pk, <<>>, FALSE, <<>>)]

(* lines 149-154 *)
FirstAndRetired(leafs, nodes, rn) ==
    <<Migration(nodes[1].pk, rn[leafs], Len(nodes) > 1, <<>>)>> \o
    [i \in 1..(Len(nodes) - 1) |-> Migration(nodes[i + 1].pk, <<>>, FALSE, rn[leafs])]

(* lines 163-168 with both differences within the distance *)
GoodEnoughBothWays(leafset, nleafset) ==
    LET allowed_distance == Cardinality(nleafset) \div TolDiv
    IN  /\ Abs(Cardinality(leafset) - Cardinality(nleafset)) <= allowed_distance
        /\ Cardinality(leafset \ nleafset) <= allowed_distance
        /\ Cardinality(nleafset \ leafset) <= allowed_distance

(* lines 163-168 *)
GoodEnough(leafset, nleafset) ==
    LET allowed_distance == Cardinality(nleafset) \div TolDiv
    IN  /\ Abs(Cardinality(leafset) - Cardinality(nleafset)) <= allowed_distance
        /\ \/ Cardinality(leafset \ nleafset) <= allowed_distance
           \/ Cardinality(nleafset \ leafset) <= allowed_distance

(* lines 182-185 taking the last leafset containing leafset *)
LastContaining(leafset, ls) ==
    LET S == {i \in DOMAIN ls : leafset \subseteq ls[i]}
    IN  IF S = {} THEN {} ELSE ls[CHOOSE i \in S : \A j \in S : j <= i]

(* lines 182-185: the first leafset containing leafset, {} if there is none *)
Containing(leafset, ls) ==
    LET i == FirstTrue([k \in DOMAIN ls |-> leafset \subseteq ls[k]])
    IN  IF i = 0 THEN {} ELSE ls[i]

(* lines 188-191 *)
RECURSIVE MaxIntersection(_, _, _)
MaxIntersection(leafset, ls, max_intersection) ==
    IF ls = <<>> THEN max_intersection
    ELSE MaxIntersection(leafset, Tail(ls),
            IF Cardinality(Head(ls) \cap leafset) >
               Cardinality(leafset \cap max_intersection)
            THEN Head(ls) ELSE max_intersection)

(* lines 180-193 *)
Mleafset(leafset, ls) ==
    IF Containing(leafset, ls) # {} THEN Containing(leafset, ls)
    ELSE MaxIntersection(leafset, ls, {})

(* a fallback that does not look at the name *)
ByLeafsOnly(nd, leafset, rn, ls, nms) ==
    IF Mleafset(leafset, ls) = {}
    THEN Migration(nd.pk, <<>>, FALSE, <<>>)
    ELSE Migration(nd.pk, <<>>, FALSE, rn[Mleafset(leafset, ls)])

(* lines 174-199, for one node *)
ByNameOrLeafs(nd, leafset, rn, ls, nms) ==
    IF UniqueName(nd.name, nms)
    THEN Migration(nd.pk, <<>>, FALSE, nms[nd.name][1])
    ELSE IF Mleafset(leafset, ls) = {}
    THEN Migration(nd.pk, <<>>, FALSE, <<>>)
    ELSE Migration(nd.pk, <<>>, FALSE, rn[Mleafset(leafset, ls)])

(* the result is [ok, migs]: ok is FALSE when an assertion fails *)
match_nodes(leafs, nodes, rn, urn, ls, nms) ==
    IF leafs \in DOMAIN rn
    THEN IF leafs \in DOMAIN urn /\ Len(nodes) > 2
         THEN [ok |-> FALSE, migs |-> <<>>]
         ELSE IF leafs \in DOMAIN urn /\ Len(nodes) = 2
         THEN LET pair == PairByFather(nodes)
              IN  IF pair = <<>> THEN [ok |-> FALSE, migs |-> <<>>]
                  ELSE [ok |-> TRUE,
                        migs |-> <<Migration(pair[1].pk, rn[leafs], FALSE, <<>>),
                                   Migration(pair[2].pk, urn[leafs], FALSE, <<>>)>>]
         ELSE [ok |-> TRUE, migs |-> FirstAndRetired(leafs, nodes, rn)]
    ELSE LET i == IF Cardinality(leafs) > MinBig
                  THEN FirstTrue([k \in DOMAIN ls |-> GoodEnough(leafs, ls[k])]) ELSE 0
         IN  IF i # 0
             THEN [ok |-> TRUE,
                   migs |-> [k \in DOMAIN nodes |->
                                Migration(nodes[k].pk, <<>>, FALSE, rn[ls[i]])]]
             ELSE [ok |-> TRUE,
                   migs |-> [k \in DOMAIN nodes |->
                                ByNameOrLeafs(nodes[k], leafs, rn, ls, nms)]]

---------------------------------------------------------------------------
(* main: the mapping for exact matches, lines 342-346                      *)

RECURSIVE BranchToPk(_, _)
BranchToPk(ms, st) ==
    IF ms = <<>> \/ ~st.ok THEN st
    ELSE LET m == Head(ms)
         IN  IF m.hid = <<>> THEN BranchToPk(Tail(ms), st)
             ELSE IF m.hid \in DOMAIN st.map THEN [st EXCEPT !.ok = FALSE]
             ELSE BranchToPk(Tail(ms), [st EXCEPT !.map = Put(st.map, m.hid, m.pk)])

---------------------------------------------------------------------------
(* main: the new family nodes, lines 348-375                               *)

NameOrder ==
    <<"A", "B", "C", "Sign Languages", "Unclassified", "Unclassified A">>

NameRank(n) == CHOOSE i \in DOMAIN NameOrder : NameOrder[i] = n

RECURSIVE TupleLess(_, _)
TupleLess(a, b) ==
    IF a = <<>> THEN b # <<>>
    ELSE IF b = <<>> THEN FALSE
    ELSE IF Head(a) = Head(b) THEN TupleLess(Tail(a), Tail(b))
    ELSE NameRank(Head(a)) < NameRank(Head(b))

(* key=lambda b: (len(b), b) *)
KeyLess(a, b) == Len(a) < Len(b) \/ (Len(a) = Len(b) /\ TupleLess(a, b))

RECURSIVE Sorted(_)
Sorted(S) ==
    IF S = {} THEN <<>>
    ELSE LET m == CHOOSE x \in S : \A y \in S \ {x} : KeyLess(x, y)
         IN  <<m>> \o Sorted(S \ {m})

MatchedPks == {todo[i].pk : i \in {j \in DOMAIN todo : todo[j].hid # <<>>}}

RECURSIVE InsertNew(_, _)
InsertNew(hnodes, st) ==
    IF hnodes = <<>> \/ ~st.ok THEN st
    ELSE LET hnode == Head(hnodes)
             t == families[hnode]
         IN  IF hnode \in DOMAIN st.map THEN InsertNew(Tail(hnodes), st)
             ELSE IF /\ t \in DOMAIN rglnodes
                     /\ ~ /\ \E i \in DOMAIN hnode : StartsWithUnclassified(hnode[i])
                          /\ rglnodes[t][1].pk \in MatchedPks
             THEN [st EXCEPT !.ok = FALSE]
             ELSE IF Len(hnode) > 1 /\ Front(hnode) \notin DOMAIN st.map
             THEN [st EXCEPT !.ok = FALSE]
             ELSE InsertNew(Tail(hnodes),
                    [ok |-> TRUE,
                     maxid |-> st.maxid + 1,
                     map |-> Put(st.map, hnode, st.maxid + 1),
                     languoids |-> Append(st.languoids,
                        [languoid(st.maxid + 1, "family") EXCEPT
                            !.name = Last(hnode),
                            !.hname = Last(hnode),
                            !.father_pk = IF Len(hnode) > 1 THEN st.map[Front(hnode)]
                                          ELSE NoPk])])

---------------------------------------------------------------------------
(* main: the updates for families, lines 379-400                           *)

OldName(pk) == (CHOOSE r \in oldnodes : r.pk = pk).name

Replacement(m, map) == map[m.pointer]

(* line 386 with the branch itself as the key *)
FamilyUpdateOwnKey(m, map) ==
    IF m.hid # <<>>
    THEN [languoid(m.pk, "family") EXCEPT
             !.name = IF m.rename THEN Last(m.hid) ELSE OldName(m.pk),
             !.hname = Last(m.hid),
             !.father_pk = IF Len(m.hid) > 1 THEN map[m.hid] ELSE NoPk]
    ELSE [languoid(m.pk, "family") EXCEPT
             !.name = OldName(m.pk),
             !.active = FALSE,
             !.replacement = IF m.pointer # <<>> THEN map[m.pointer] ELSE NoPk]

FamilyUpdate(m, map) ==
    IF m.hid # <<>>
    THEN [languoid(m.pk, "family") EXCEPT
             !.name = IF m.rename THEN Last(m.hid) ELSE OldName(m.pk),
             !.hname = Last(m.hid),
             !.father_pk = IF Len(m.hid) > 1 THEN map[Front(m.hid)] ELSE NoPk]
    ELSE [languoid(m.pk, "family") EXCEPT
             !.name = OldName(m.pk),
             !.active = FALSE,
             !.replacement = IF m.pointer # <<>> THEN Replacement(m, map) ELSE NoPk]

(* the keys that lines 386 and 396 look up in branch_to_pk *)
FamilyKeys(m) ==
    IF m.hid # <<>> THEN (IF Len(m.hid) > 1 THEN {Front(m.hid)} ELSE {})
    ELSE IF m.pointer # <<>> THEN {m.pointer} ELSE {}

---------------------------------------------------------------------------
(* main: the updates of father_pks for languages, lines 411-423.  The key  *)
(* hname, taken from the inverted isolate_names and collapsed_names, is    *)
(* left out.                                                               *)

LeafId(l) == IF l \in DOMAIN codes THEN codes[l] ELSE ncodes[l]

LeafUpdate(l, map) ==
    [languoid(LeafId(l), "language") EXCEPT
        !.status = languages[l].status,
        !.comment = languages[l].comment,
        !.father_pk = IF languages[l].branch # <<>> THEN map[languages[l].branch]
                      ELSE NoPk]

(* lines 425-432: ll.hid like '%NOCODE_%' *)
LikeNocode(hid) ==
    \E i \in 1..Len(hid) :
        i + 6 <= Len(hid) /\ SubSeq(hid, i, i + 5) = <<"N", "O", "C", "O", "D", "E">>

SweepRows == ByPk({[pk |-> codes[h], hid |-> h] : h \in {x \in DOMAIN codes : LikeNocode(x)}})

Swept(rows) ==
    LET unused == SelectSeq(rows, LAMBDA r : r.hid \notin DOMAIN languages)
    IN  [i \in DOMAIN unused |->
            [languoid(unused[i].pk, "language") EXCEPT
                !.status = "retired", !.active = FALSE]]

---------------------------------------------------------------------------
(* The lines of a classification file.                                     *)

HeaderLine(h) == [leaf |-> FALSE, header |-> h, name |-> "", code |-> <<>>]

LeafLine(n, c) == [leaf |-> TRUE, header |-> <<>>, name |-> n, code |-> c]

(* the lines of the first block of a file that starts with a header *)
BlockLen(lines) ==
    IF \E i \in 2..Len(lines) : ~lines[i].leaf
    THEN (CHOOSE i \in 2..Len(lines) :
             ~lines[i].leaf /\ \A j \in 2..(i - 1) : lines[j].leaf) - 1
    ELSE Len(lines)

FirstBlock(lines) ==
    [header |-> lines[1].header, leafs |-> SubSeq(lines, 2, BlockLen(lines))]

---------------------------------------------------------------------------
(* The steps of main.                                                      *)

Abort ==
    /\ pc' = "aborted"
    /\ UNCHANGED <<lff, lof, pos, families, famorder, languages, langorder, isolate_names,
                   collapsed_names, names, codes, oldnodes, maxid, ncodes, languoids,
                   rnodes, urnodes, leafsets, rglnodes, pending, todo, branch_to_pk,
                   written>>

Unread(file) == SubSeq(file, pos + 1, Len(file))

(* line 223: parse_families on lff.txt, one block of split_families a step *)
ParseLff ==
    /\ pc = "lff"
    /\ IF ~BlockOk(FirstBlock(Unread(lff)).leafs) THEN Abort
       ELSE /\ families' = ParsedFamilies(FirstBlock(Unread(lff))).families
            /\ famorder' = ParsedFamilies(FirstBlock(Unread(lff))).famorder
            /\ languages' = ParsedLanguages(FirstBlock(Unread(lff))).languages
            /\ langorder' = ParsedLanguages(FirstBlock(Unread(lff))).langorder
            /\ pos' = pos + BlockLen(Unread(lff))
            /\ pc' = IF pos' = Len(lff) THEN "collapse" ELSE "lff"
            /\ UNCHANGED <<lff, lof, isolate_names, collapsed_names, names, codes,
                           oldnodes, maxid, ncodes, languoids, rnodes, urnodes, leafsets,
                           rglnodes, pending, todo, branch_to_pk, written>>

(* lines 226-237 *)
Collapse ==
    /\ pc = "collapse"
    /\ LET st == Collapsed(famorder,
                    [families |-> families, languages |-> languages,
                     isolate_names |-> isolate_names,
                     collapsed_names |-> collapsed_names])
       IN  /\ families' = st.families
           /\ famorder' = SelectSeq(famorder, LAMBDA k : k \in DOMAIN st.families)
           /\ languages' = st.languages
           /\ isolate_names' = st.isolate_names
           /\ collapsed_names' = st.collapsed_names
    /\ pc' = "names"
    /\ UNCHANGED <<lff, lof, pos, langorder, names, codes, oldnodes, maxid, ncodes,
                   languoids, rnodes, urnodes, leafsets, rglnodes, pending, todo,
                   branch_to_pk, written>>

(* lines 240-246 *)
LookupNames ==
    /\ pc = "names"
    /\ names' = NamesOf(famorder)
    /\ pc' = "open_lof"
    /\ UNCHANGED <<lff, lof, pos, families, famorder, languages, langorder, isolate_names,
                   collapsed_names, codes, oldnodes, maxid, ncodes, languoids, rnodes,
                   urnodes, leafsets, rglnodes, pending, todo, branch_to_pk, written>>

(* line 249: parse_families on lof.txt *)
ParseLof ==
    /\ pc = "lof"
    /\ IF ~BlockOk(FirstBlock(Unread(lof)).leafs) THEN Abort
       ELSE /\ families' = ParsedFamilies(FirstBlock(Unread(lof))).families
            /\ famorder' = ParsedFamilies(FirstBlock(Unread(lof))).famorder
            /\ languages' = ParsedLanguages(FirstBlock(Unread(lof))).languages
            /\ langorder' = ParsedLanguages(FirstBlock(Unread(lof))).langorder
            /\ pos' = pos + BlockLen(Unread(lof))
            /\ pc' = IF pos' = Len(lof) THEN "new_leaves" ELSE "lof"
            /\ UNCHANGED <<lff, lof, isolate_names, collapsed_names, names, codes,
                           oldnodes, maxid, ncodes, languoids, rnodes, urnodes, leafsets,
                           rglnodes, pending, todo, branch_to_pk, written>>

(* lines 251-272 *)
InsertLeaves ==
    /\ pc = "new_leaves"
    /\ LET st == NewLeaves(langorder,
                    [maxid |-> maxid, ncodes |-> ncodes, languoids |-> languoids])
       IN  /\ maxid' = st.maxid
           /\ ncodes' = st.ncodes
           /\ languoids' = st.languoids
    /\ pc' = "rnodes"
    /\ UNCHANGED <<lff, lof, pos, families, famorder, languages, langorder, isolate_names,
                   collapsed_names, names, codes, oldnodes, rnodes, urnodes, leafsets,
                   rglnodes, pending, todo, branch_to_pk, written>>

(* lines 274-300 *)
BuildRnodes ==
    /\ pc = "rnodes"
    /\ LET st == Rnodes(famorder, [ok |-> TRUE, rnodes |-> Empty, urnodes |-> Empty])
       IN  IF ~st.ok THEN Abort
           ELSE /\ rnodes' = st.rnodes
                /\ urnodes' = st.urnodes
                /\ leafsets' \in Leafsets(st.rnodes)
                /\ pc' = "load"
                /\ UNCHANGED <<lff, lof, pos, families, famorder, languages, langorder,
                               isolate_names, collapsed_names, names, codes, oldnodes,
                               maxid, ncodes, languoids, rglnodes, pending, todo,
                               branch_to_pk, written>>

(* lines 313-333: the rows of the old family nodes are read, those without *)
(* leafs are retired, the others are grouped by their leafs in the order   *)
(* of glnodes.items(), which is not specified                              *)
LoadOldTree(trees) ==
    /\ pc = "load"
    /\ \E tree \in trees :
         LET withleafs == {r \in tree : r.leafs # {}}
             noleafs == ByPk(tree \ withleafs)
         IN  /\ oldnodes' = tree
             /\ todo' = [i \in DOMAIN noleafs |-> RetireEmpty(noleafs[i], names)]
             /\ \E glnodes \in Perms(withleafs) :
                  rglnodes' =
                     [l \in {r.leafs : r \in withleafs} |->
                        LET rows == SelectSeq(glnodes, LAMBDA r : r.leafs = l)
                        IN  [i \in DOMAIN rows |-> node(rows[i])]]
             /\ pending' = {r.leafs : r \in withleafs}
             /\ pc' = IF withleafs = {} THEN "branch_to_pk" ELSE "match"
    /\ UNCHANGED <<lff, lof, pos, families, famorder, languages, langorder, isolate_names,
                   collapsed_names, names, codes, maxid, ncodes, languoids, rnodes,
                   urnodes, leafsets, branch_to_pk, written>>

(* lines 336-339: one item of rglnodes.items() a step, in any order *)
MatchStep ==
    /\ pc = "match"
    /\ \E leafs \in pending :
         LET r == match_nodes(leafs, rglnodes[leafs], rnodes, urnodes, leafsets, names)
         IN  IF ~r.ok THEN Abort
             ELSE /\ todo' = todo \o r.migs
                  /\ pending' = pending \ {leafs}
                  /\ pc' = IF pending' = {} THEN "branch_to_pk" ELSE "match"
                  /\ UNCHANGED <<lff, lof, pos, families, famorder, languages, langorder,
                                 isolate_names, collapsed_names, names, codes, oldnodes,
                                 maxid, ncodes, languoids, rnodes, urnodes, leafsets,
                                 rglnodes, branch_to_pk, written>>

(* lines 342-346 *)
CompileExact ==
    /\ pc = "branch_to_pk"
    /\ LET st == BranchToPk(todo, [ok |-> TRUE, map |-> Empty])
       IN  IF ~st.ok THEN Abort
           ELSE /\ branch_to_pk' = st.map
                /\ pc' = "insert"
                /\ UNCHANGED <<lff, lof, pos, families, famorder, languages, langorder,
                               isolate_names, collapsed_names, names, codes, oldnodes,
                               maxid, ncodes, languoids, rnodes, urnodes, leafsets,
                               rglnodes, pending, todo, written>>

(* lines 348-375 *)
InsertFamilies ==
    /\ pc = "insert"
    /\ LET st == InsertNew(Sorted(DOMAIN families),
                    [ok |-> TRUE, maxid |-> maxid, map |-> branch_to_pk,
                     languoids |-> languoids])
       IN  IF ~st.ok THEN Abort
           ELSE /\ maxid' = st.maxid
                /\ branch_to_pk' = st.map
                /\ languoids' = st.languoids
                /\ pc' = "families"
                /\ UNCHANGED <<lff, lof, pos, families, famorder, languages, langorder,
                               isolate_names, collapsed_names, names, codes, oldnodes,
                               ncodes, rnodes, urnodes, leafsets, rglnodes, pending,
                               todo, written>>

(* lines 379-400; a key missing from branch_to_pk is a KeyError *)
UpdateFamilies ==
    /\ pc = "families"
    /\ IF \E i \in DOMAIN todo : ~(FamilyKeys(todo[i]) \subseteq DOMAIN branch_to_pk)
       THEN Abort
       ELSE /\ languoids' =
                  languoids \o [i \in DOMAIN todo |-> FamilyUpdate(todo[i], branch_to_pk)]
            /\ pc' = "leaves"
            /\ UNCHANGED <<lff, lof, pos, families, famorder, languages, langorder,
                           isolate_names, collapsed_names, names, codes, oldnodes,
                           maxid, ncodes, rnodes, urnodes, leafsets, rglnodes, pending,
                           todo, branch_to_pk, written>>

(* lines 411-423; a branch missing from branch_to_pk is a KeyError *)
UpdateLeaves ==
    /\ pc = "leaves"
    /\ IF \E l \in DOMAIN languages :
            languages[l].branch # <<>> /\ languages[l].branch \notin DOMAIN branch_to_pk
       THEN Abort
       ELSE /\ languoids' =
                  languoids \o
                  [i \in DOMAIN langorder |-> LeafUpdate(langorder[i], branch_to_pk)]
            /\ pc' = "sweep"
            /\ UNCHANGED <<lff, lof, pos, families, famorder, languages, langorder,
                           isolate_names, collapsed_names, names, codes, oldnodes,
                           maxid, ncodes, rnodes, urnodes, leafsets, rglnodes, pending,
                           todo, branch_to_pk, written>>

(* lines 425-435 *)
SweepAndWrite ==
    /\ pc = "sweep"
    /\ languoids' = languoids \o Swept(SweepRows)
    /\ written' = <<languoids'>>
    /\ pc' = "done"
    /\ UNCHANGED <<lff, lof, pos, families, famorder, languages, langorder, isolate_names,
                   collapsed_names, names, codes, oldnodes, maxid, ncodes, rnodes,
                   urnodes, leafsets, rglnodes, pending, todo, branch_to_pk>>

(* parse_families opens and reads the file, lines 88 and 68 *)
ReadLff(files) ==
    /\ pc = "open_lff"
    /\ lff' \in files
    /\ pos' = 0
    /\ pc' = "lff"
    /\ UNCHANGED <<lof, families, famorder, languages, langorder, isolate_names,
                   collapsed_names, names, codes, oldnodes, maxid, ncodes, languoids,
                   rnodes, urnodes, leafsets, rglnodes, pending, todo, branch_to_pk,
                   written>>

ReadLof(files) ==
    /\ pc = "open_lof"
    /\ lof' \in files
    /\ pos' = 0
    /\ pc' = "lof"
    /\ UNCHANGED <<lff, families, famorder, languages, langorder, isolate_names,
                   collapsed_names, names, codes, oldnodes, maxid, ncodes, languoids,
                   rnodes, urnodes, leafsets, rglnodes, pending, todo, branch_to_pk,
                   written>>

---------------------------------------------------------------------------
(* The database and the files of the runs that are checked.                *)

aaa == <<"a", "a", "a">>

bbb == <<"b", "b", "b">>

ccc == <<"c", "c", "c">>

NOCODE_y == NOCODE_us \o <<"y">>

(* select ll.hid, l.pk ..., line 207 *)
DbCodes == [h \in {aaa, bbb, ccc, NOCODE_y} |->
               CASE h = aaa -> 1 [] h = bbb -> 2 [] h = ccc -> 3 [] OTHER -> 4]

FirstOldPk == 10

(* select pk from languoid order by pk desc limit 1, line 209 *)
DbMaxId == 20

OldNames == {"A", "Unclassified"}

OldLeafs == SUBSET {aaa, bbb, ccc}

(* the old family nodes: the father of a node has a smaller pk, and the    *)
(* leafs of a node are among those of its father (treeclosuretable)        *)
OldAttrs(n) ==
    [name : OldNames, father_pk : {NoPk} \cup FirstOldPk..(FirstOldPk + n - 2),
     leafs : OldLeafs]

OldRow(i, a) ==
    [pk |-> FirstOldPk + i - 1, name |-> a.name, father_pk |-> a.father_pk,
     leafs |-> a.leafs]

OldTreesOf(n) ==
    {{OldRow(i, f[i]) : i \in 1..n} :
        f \in {g \in [1..n -> OldAttrs(n)] :
                  \A i \in 1..n : g[i].father_pk # NoPk =>
                      /\ g[i].father_pk < FirstOldPk + i - 1
                      /\ g[i].leafs \subseteq g[g[i].father_pk - FirstOldPk + 1].leafs}}

OldTrees == UNION {OldTreesOf(n) : n \in 1..MaxOld}

Files(headers, leaflines, n) ==
    {f \in SeqsUpTo({HeaderLine(h) : h \in headers} \cup leaflines, n) : ~f[1].leaf}

(* leaf lines: [bbb] is written with a backslash, [NOCODE-x] with a dash;  *)
(* [a'b] has two characters once the quote is stripped, [NOCODE-] has no   *)
(* character after the prefix                                              *)
LffFiles ==
    Files({<<"A">>, <<"A", "Unclassified A">>},
          {LeafLine("a", aaa), LeafLine("b", <<"b", "\\", "b", "b">>),
           LeafLine("x", NOCODE_dash \o <<"x">>), LeafLine("q", <<"a", "'", "b">>)},
          MaxLines)

LofFiles ==
    Files({<<"Unattested">>, <<"A", "B">>},
          {LeafLine("c", ccc), LeafLine("r", NOCODE_dash)}, MaxLofLines)

Init ==
    /\ pc = "open_lff"
    /\ lff = <<>>
    /\ lof = <<>>
    /\ pos = 0
    /\ families = Empty
    /\ famorder = <<>>
    /\ languages = Empty
    /\ langorder = <<>>
    /\ isolate_names = Empty
    /\ collapsed_names = Empty
    /\ names = Empty
    /\ codes = DbCodes
    /\ oldnodes = {}
    /\ maxid = DbMaxId
    /\ ncodes = Empty
    /\ languoids = <<>>
    /\ rnodes = Empty
    /\ urnodes = Empty
    /\ leafsets = <<>>
    /\ rglnodes = Empty
    /\ pending = {}
    /\ todo = <<>>
    /\ branch_to_pk = Empty
    /\ written = <<>>

Next ==
    \/ ReadLff(LffFiles)
    \/ ParseLff
    \/ Collapse
    \/ LookupNames
    \/ ReadLof(LofFiles)
    \/ ParseLof
    \/ InsertLeaves
    \/ BuildRnodes
    \/ LoadOldTree(OldTrees)
    \/ MatchStep
    \/ CompileExact
    \/ InsertFamilies
    \/ UpdateFamilies
    \/ UpdateLeaves
    \/ SweepAndWrite

Spec == Init /\ [][Next]_vars

---------------------------------------------------------------------------
(* The run with --all: the old nodes are read with the query of line 309,  *)
(*   where ll.pk = l.pk and ll.level = 'family' or ll.level is null        *)
(* in which "and" binds tighter than "or": a languoid ll whose level is    *)
(* null is joined with every row l of language, and the row read is        *)
(* (l.pk, l.name, null, ll.father_pk).  tree is the set of old nodes of    *)
(* level family or null and n the one whose level is null; a node that is  *)
(* read twice with the same father_pk is two keys of glnodes that differ   *)
(* in the level, which the rows here do not carry, and is one row here.    *)
(* The rows of language that are languages or dialects are joined as well  *)
(* and are left out.                                                       *)

CrossJoined(tree, n) ==
    (tree \ {n}) \cup {[r EXCEPT !.father_pk = n.father_pk] : r \in tree}

AllTrees == OldTrees \cup UNION {{CrossJoined(t, n) : n \in t} : t \in OldTrees}

NextAll ==
    \/ ReadLff(LffFiles)
    \/ ParseLff
    \/ Collapse
    \/ LookupNames
    \/ ReadLof(LofFiles)
    \/ ParseLof
    \/ InsertLeaves
    \/ BuildRnodes
    \/ LoadOldTree(AllTrees)
    \/ MatchStep
    \/ CompileExact
    \/ InsertFamilies
    \/ UpdateFamilies
    \/ UpdateLeaves
    \/ SweepAndWrite

SpecAll == Init /\ [][NextAll]_vars

---------------------------------------------------------------------------
(* match_nodes on its own: the state of main at line 335, with the leafs   *)
(* numbered, one leafset of the old classification and its nodes.          *)

BranchAt(i) == <<NameOrder[i]>>

RnodesOf(ls) ==
    [n \in Range(ls) |-> BranchAt(CHOOSE i \in DOMAIN ls : ls[i] = n)]

NonEmptySubsets(U) == SUBSET U \ {{}}

UpTo2(S) == {{a, b} : a, b \in S}

UpTo3(S) == {{a, b, c} : a, b, c \in S}

(* the old nodes of one leafset, in every order of glnodes.items() *)
NodeLists ==
    UNION {{[i \in 1..k |-> [pk |-> FirstOldPk + p[i] - 1, name |-> "A",
                             father_pk |-> f[p[i]]]] :
              p \in Perms(1..k),
              f \in {g \in [1..k -> {NoPk} \cup FirstOldPk..(FirstOldPk + k - 2)] :
                        \A i \in 1..k : g[i] < FirstOldPk + i - 1}}
           : k \in 1..MaxNodes}

NamedNodes == {<<[pk |-> FirstOldPk, name |-> n, father_pk |-> NoPk]>> : n \in {"A", "X"}}

TwoNodes ==
    <<[pk |-> FirstOldPk, name |-> "X", father_pk |-> NoPk],
      [pk |-> FirstOldPk + 1, name |-> "A", father_pk |-> FirstOldPk]>>

MatchInputs(ls, rn, urn, nms, leafs, nodes) ==
    /\ leafsets = ls
    /\ rnodes = rn
    /\ urnodes = urn
    /\ names = nms
    /\ rglnodes = [l \in {leafs} |-> nodes]
    /\ pending = {leafs}

(* few leafs: one node, with a name that is a family's or nobody's *)
InitSmall ==
    \E S \in UpTo3(NonEmptySubsets(1..SmallLeafs)) : \E ls \in Leafsets([n \in S |-> 0]) :
    \E leafs \in NonEmptySubsets(1..SmallLeafs) : \E nodes \in NamedNodes :
    \E nms \in {Empty, NamesOf([i \in DOMAIN ls |-> BranchAt(i)])} :
        MatchInputs(ls, RnodesOf(ls), Empty, nms, leafs, nodes)

(* leafs shared by a family and its Unclassified subfamily *)
InitShared ==
    \E leafs \in NonEmptySubsets(1..SmallLeafs) : \E nodes \in NodeLists :
        MatchInputs(<<leafs>>, [l \in {leafs} |-> <<"A">>],
                    [l \in {leafs} |-> <<"A", "Unclassified A">>],
                    NamesOf(<<<<"A">>, <<"A", "Unclassified A">>>>), leafs, nodes)

(* many leafs: new leafsets that lack at most two of them *)
InitBig ==
    \E S \in UpTo2({n \in SUBSET (1..BigLeafs) : Cardinality(n) >= BigLeafs - 2}) :
    \E ls \in Leafsets([n \in S |-> 0]) :
    \E leafs \in {1..(BigLeafs - 1), 1..BigLeafs} :
        MatchInputs(ls, RnodesOf(ls), Empty,
                    NamesOf([i \in DOMAIN ls |-> BranchAt(i)]), leafs, TwoNodes)

InitMatch ==
    /\ pc = "match"
    /\ lff = <<>>
    /\ lof = <<>>
    /\ pos = 0
    /\ families = Empty
    /\ famorder = <<>>
    /\ languages = Empty
    /\ langorder = <<>>
    /\ isolate_names = Empty
    /\ collapsed_names = Empty
    /\ codes = Empty
    /\ oldnodes = {}
    /\ maxid = DbMaxId
    /\ ncodes = Empty
    /\ languoids = <<>>
    /\ todo = <<>>
    /\ branch_to_pk = Empty
    /\ written = <<>>
    /\ \/ InitSmall
       \/ InitShared
       \/ InitBig

SpecMatch == InitMatch /\ [][MatchStep]_vars

---------------------------------------------------------------------------
(* Properties.                                                             *)

Emitted(pk) == {i \in DOMAIN languoids : languoids[i].pk = pk}

IsNewFamily(i) == languoids[i].level = "family" /\ languoids[i].pk > DbMaxId

(* C1, as claimed: in the emitted instruction list no instruction carries  *)
(* a father_pk whose node is not emitted by an earlier instruction.        *)
C1_FatherEmittedEarlier ==
    pc = "done" =>
        \A i \in DOMAIN languoids :
            languoids[i].father_pk # NoPk =>
                \E j \in 1..(i - 1) : languoids[j].pk = languoids[i].father_pk

(* C1, amended: in the emitted instruction list every father_pk is the pk  *)
(* of another node, which is either a new family node emitted by an        *)
(* earlier instruction or an old family node matched to a branch, whose    *)
(* update is in the list, before or after.                                 *)
C1_FatherNewEarlierOrMatchedOld ==
    pc = "done" =>
        \A i \in DOMAIN languoids :
            LET f == languoids[i].father_pk
            IN  f # NoPk =>
                  /\ f # languoids[i].pk
                  /\ \/ \E j \in 1..(i - 1) : languoids[j].pk = f /\ IsNewFamily(j)
                     \/ /\ f \in MatchedPks
                        /\ \E j \in Emitted(f) :
                              languoids[j].level = "family" /\ languoids[j].active

(* a new family node below an old node that is updated later in the list *)
C1_Witness ==
    /\ pc = "done"
    /\ \E i \in DOMAIN languoids :
          /\ IsNewFamily(i)
          /\ languoids[i].father_pk \in MatchedPks
          /\ \A j \in Emitted(languoids[i].father_pk) : j > i

IsProperPrefix(p, q) == Len(p) < Len(q) /\ SubSeq(q, 1, Len(p)) = p

(* C2: for every key p of families and every key q of families that has p *)
(* as a proper prefix, the leaf codes of families[q] are among those of    *)
(* families[p], whatever blocks of the two files have been processed.      *)
C2_AncestorInclusion ==
    \A p, q \in DOMAIN families :
        IsProperPrefix(p, q) => families[q] \subseteq families[p]

(* both files parsed, a branch from lof.txt below a family of lff.txt *)
C2_Witness ==
    /\ pc = "new_leaves"
    /\ \E p, q \in DOMAIN families :
          /\ IsProperPrefix(p, q)
          /\ families[q] # {}
          /\ families[q] # families[p]
          /\ p \in DOMAIN names

LeafLinesOf(file) == {file[i] : i \in {j \in DOMAIN file : file[j].leaf}}

WellFormed(code) ==
    /\ code # <<>>
    /\ \/ Len(code) = 3
       \/ /\ Len(code) >= 8
          /\ \A i \in 1..7 : code[i] = NOCODE_us[i]
          /\ \A i \in 8..Len(code) : code[i] \in PatternChars

HasBadLine(file) == \E l \in LeafLinesOf(file) : ~WellFormed(CleanCode(l.code))

(* C3: every code the parser has accepted is non-empty and has three       *)
(* characters or matches NOCODE_[A-Za-z_-]+; a run on a file with a leaf   *)
(* line whose cleaned code is not so never gets past the parsing of that   *)
(* file, and languoids.json is not written.                                *)
C3_CodesChecked ==
    /\ \A c \in DOMAIN languages : WellFormed(c)
    /\ \A p \in DOMAIN families : \A c \in families[p] : WellFormed(c)
    /\ HasBadLine(lff) => pc \in {"lff", "aborted"} /\ written = <<>>
    /\ HasBadLine(lof) => pc \in {"lof", "aborted"} /\ written = <<>>

(* a run aborted on lof.txt, after lff.txt was accepted with a code that   *)
(* the cleaning changed                                                    *)
C3_Witness ==
    /\ pc = "aborted"
    /\ HasBadLine(lof)
    /\ \E l \in LeafLinesOf(lff) : CleanCode(l.code) # l.code
    /\ written = <<>>

CodesOf(file) == [i \in DOMAIN file |-> CleanCode(file[i].code)]

HasDuplicate(file) ==
    \E i, j \in DOMAIN file :
        i < j /\ file[i].leaf /\ file[j].leaf /\ CodesOf(file)[i] = CodesOf(file)[j]

(* C4, as claimed: a code on two leaf lines, of one file or of the two, is *)
(* a fatal parse error: the run does not get past the parsing of the file  *)
(* with the second of the two lines.                                       *)
C4_DuplicateIsFatal ==
    /\ HasDuplicate(lff) => pc \in {"lff", "aborted"}
    /\ HasDuplicate(lff \o lof) => pc \in {"lff", "open_lof", "lof", "aborted"}

(* C5: when k >= 1 old nodes share leafs that are the leafs of one new     *)
(* branch only, the first is matched to the branch, renamed iff k > 1, and *)
(* each of the others is emitted inactive with the pk of the first as its  *)
(* replacement.                                                            *)
C5_FirstMatchedOthersReplaced ==
    pc = "done" =>
        \A leafs \in DOMAIN rglnodes :
            leafs \in DOMAIN rnodes /\ leafs \notin DOMAIN urnodes =>
                LET nodes == rglnodes[leafs]
                    first == nodes[1].pk
                IN  /\ \E k \in DOMAIN todo :
                          /\ todo[k].pk = first
                          /\ todo[k].hid = rnodes[leafs]
                          /\ todo[k].rename = (Len(nodes) > 1)
                    /\ \A j \in Emitted(first) :
                          /\ languoids[j].active
                          /\ languoids[j].hname = Last(rnodes[leafs])
                          /\ Len(nodes) > 1 => languoids[j].name = Last(rnodes[leafs])
                    /\ \A n \in 2..Len(nodes) :
                          /\ Emitted(nodes[n].pk) # {}
                          /\ \A j \in Emitted(nodes[n].pk) :
                                /\ ~languoids[j].active
                                /\ languoids[j].replacement = first

(* two old nodes with the leafs of one new branch, emitted *)
C5_Witness ==
    /\ pc = "done"
    /\ \E leafs \in DOMAIN rglnodes :
          /\ leafs \in DOMAIN rnodes
          /\ leafs \notin DOMAIN urnodes
          /\ Len(rglnodes[leafs]) > 1

Tolerance(n) == Cardinality(n) \div 10

SizesClose(l, n) ==
    /\ Cardinality(l) - Cardinality(n) <= Tolerance(n)
    /\ Cardinality(n) - Cardinality(l) <= Tolerance(n)

CloseBothWays(l, n) ==
    /\ SizesClose(l, n)
    /\ Cardinality(l \ n) <= Tolerance(n)
    /\ Cardinality(n \ l) <= Tolerance(n)

CloseOneWay(l, n) ==
    /\ SizesClose(l, n)
    /\ \/ Cardinality(l \ n) <= Tolerance(n)
       \/ Cardinality(n \ l) <= Tolerance(n)

(* the old nodes whose leafs have neither an exact nor a 10% match *)
Unmatched ==
    {leafs \in DOMAIN rglnodes :
        /\ leafs \notin DOMAIN rnodes
        /\ ~ /\ Cardinality(leafs) > 10
             /\ \E n \in DOMAIN rnodes : CloseOneWay(leafs, n)}

MigrationsOf(pk) == {todo[k] : k \in {i \in DOMAIN todo : todo[i].pk = pk}}

(* C7, as claimed: an old node without exact or approximate match whose    *)
(* name is the last component of exactly one family branch of the new      *)
(* classification is retired with a pointer to that branch.                *)
C7_UniqueNameAmongFamilies ==
    pc = "branch_to_pk" =>
        \A leafs \in Unmatched : \A i \in DOMAIN rglnodes[leafs] :
            LET nd == rglnodes[leafs][i]
                bs == {b \in DOMAIN families : Last(b) = nd.name}
            IN  Cardinality(bs) = 1 =>
                    \A m \in MigrationsOf(nd.pk) : m.hid = <<>> /\ m.pointer \in bs

(* C7, amended: the names are those of the families that lff.txt leaves    *)
(* after the collapsing pass, the branches of lof.txt are not among them;  *)
(* an old node without exact or approximate match whose name is that of    *)
(* exactly one of these families is retired with a pointer to it.          *)
C7_UniqueNameAmongLffFamilies ==
    /\ pc = "open_lof" =>
          /\ DOMAIN names = {Last(b) : b \in DOMAIN families}
          /\ \A n \in DOMAIN names :
                Range(names[n]) = {b \in DOMAIN families : Last(b) = n}
    /\ pc = "branch_to_pk" =>
          \A leafs \in Unmatched : \A i \in DOMAIN rglnodes[leafs] :
              LET nd == rglnodes[leafs][i]
              IN  nd.name \in DOMAIN names /\ Len(names[nd.name]) = 1 =>
                      /\ MigrationsOf(nd.pk) # {}
                      /\ \A m \in MigrationsOf(nd.pk) :
                            m.hid = <<>> /\ m.pointer = names[nd.name][1]

(* an old node pointed by its name at a family that shares no leaf with it *)
C7_Witness ==
    /\ pc = "branch_to_pk"
    /\ \E leafs \in Unmatched : \E i \in DOMAIN rglnodes[leafs] :
          LET nd == rglnodes[leafs][i]
          IN  /\ nd.name \in DOMAIN names
              /\ Len(names[nd.name]) = 1
              /\ families[names[nd.name][1]] \cap leafs = {}
              /\ \E n \in DOMAIN rnodes : n \cap leafs # {}

(* C8, as claimed: the collapsing pass leaves the sole leaf of a branch of *)
(* length 1 without parent branch and the sole leaf of a longer branch     *)
(* with the parent of that branch, and removes the branch.                 *)
C8_CollapseReparents ==
    [][pc = "collapse" =>
          \A key \in DOMAIN families :
              Cardinality(families[key]) = 1 =>
                  /\ key \notin DOMAIN families'
                  /\ languages'[TheLeaf(families[key])].branch =
                        IF Len(key) = 1 THEN <<>> ELSE Front(key)]_vars

(* the old leafsets with more than 10 leafs and no exact match, matched *)
BigUnmatched ==
    {l \in DOMAIN rglnodes \ pending : Cardinality(l) > 10 /\ l \notin DOMAIN rnodes}

PointedAt(l, i) ==
    \A k \in DOMAIN rglnodes[l] :
        /\ MigrationsOf(rglnodes[l][k].pk) # {}
        /\ \A m \in MigrationsOf(rglnodes[l][k].pk) :
              m.hid = <<>> /\ ~m.rename /\ m.pointer = rnodes[leafsets[i]]

(* C6, as claimed: every old node with more than 10 leafs and no exact     *)
(* match is pointed at the branch of the first new leafset, in ascending   *)
(* size, whose size is within floor(|N|/10) and whose differences in both  *)
(* directions have at most floor(|N|/10) elements.                         *)
C6_FirstCloseBothWays ==
    pc = "branch_to_pk" =>
        \A l \in BigUnmatched : \A i \in DOMAIN leafsets :
            /\ CloseBothWays(l, leafsets[i])
            /\ \A j \in 1..(i - 1) : ~CloseBothWays(l, leafsets[j])
            => PointedAt(l, i)

(* C6, amended: ... whose size is within floor(|N|/10) and whose           *)
(* difference in at least one of the two directions has at most            *)
(* floor(|N|/10) elements; the leafsets are in ascending size.             *)
C6_FirstCloseOneWay ==
    /\ \A i, j \in DOMAIN leafsets :
          i < j => Cardinality(leafsets[i]) <= Cardinality(leafsets[j])
    /\ pc = "branch_to_pk" =>
          \A l \in BigUnmatched : \A i \in DOMAIN leafsets :
              /\ CloseOneWay(l, leafsets[i])
              /\ \A j \in 1..(i - 1) : ~CloseOneWay(l, leafsets[j])
              => PointedAt(l, i)

(* old nodes pointed at a leafset that is close one way only, before one   *)
(* that is close both ways                                                 *)
C6_Witness ==
    /\ pc = "branch_to_pk"
    /\ \E l \in BigUnmatched : \E i, j \in DOMAIN leafsets :
          /\ i < j
          /\ CloseOneWay(l, leafsets[i])
          /\ ~CloseBothWays(l, leafsets[i])
          /\ CloseBothWays(l, leafsets[j])
          /\ PointedAt(l, i)

(* the nodes that reach the last fallback of match_nodes *)
LeftToLeafs ==
    {x \in [l : DOMAIN rglnodes \ pending, k : 1..MaxNodes] :
        /\ x.k \in DOMAIN rglnodes[x.l]
        /\ x.l \notin DOMAIN rnodes
        /\ ~ /\ Cardinality(x.l) > 10
             /\ \E n \in DOMAIN rnodes : CloseOneWay(x.l, n)
        /\ ~ /\ rglnodes[x.l][x.k].name \in DOMAIN names
             /\ Len(names[rglnodes[x.l][x.k].name]) = 1}

Supersets(l) == {i \in DOMAIN leafsets : l \subseteq leafsets[i]}

Common(l, i) == Cardinality(l \cap leafsets[i])

Sharing(l) == {i \in DOMAIN leafsets : Common(l, i) > 0}

(* the leafset the fallback has to choose: the first of the smallest       *)
(* supersets, else the first of those with the largest intersection        *)
Chosen(l, i) ==
    IF Supersets(l) # {}
    THEN /\ i \in Supersets(l)
         /\ \A j \in Supersets(l) :
               Cardinality(leafsets[i]) <= Cardinality(leafsets[j])
         /\ \A j \in Supersets(l) :
               Cardinality(leafsets[j]) = Cardinality(leafsets[i]) => i <= j
    ELSE /\ i \in Sharing(l)
         /\ \A j \in DOMAIN leafsets : Common(l, j) <= Common(l, i)
         /\ \A j \in DOMAIN leafsets : Common(l, j) = Common(l, i) => i <= j

SharedLeafs == (DOMAIN rglnodes \ pending) \cap DOMAIN rnodes \cap DOMAIN urnodes

Matched(pk, branch) == \E m \in MigrationsOf(pk) : m.hid = branch /\ m.pointer = <<>>

(* C10: for leafs shared by two new branches, more than two old nodes      *)
(* abort the run; of two old nodes, the one whose father is the other is   *)
(* matched to the branch of urnodes and the other to that of rnodes, in    *)
(* either order, and the run aborts when neither is the father of the      *)
(* other.                                                                  *)
C10_SharedLeafsPairedByFather ==
    pc # "match" =>
        \A l \in DOMAIN rglnodes \cap DOMAIN rnodes \cap DOMAIN urnodes :
            LET nodes == rglnodes[l]
            IN  /\ Len(nodes) > 2 => pc = "aborted"
                /\ Len(nodes) = 2 =>
                      IF \E u, n \in 1..2 : nodes[u].father_pk = nodes[n].pk
                      THEN /\ pc = "branch_to_pk"
                           /\ \A u, n \in 1..2 :
                                 nodes[u].father_pk = nodes[n].pk =>
                                     /\ Matched(nodes[u].pk, urnodes[l])
                                     /\ Matched(nodes[n].pk, rnodes[l])
                      ELSE pc = "aborted"

(* the father is the first of the two nodes *)
C10_Witness ==
    /\ pc = "branch_to_pk"
    /\ \E l \in SharedLeafs :
          /\ Len(rglnodes[l]) = 2
          /\ rglnodes[l][2].father_pk = rglnodes[l][1].pk
          /\ Matched(rglnodes[l][2].pk, urnodes[l])

(* the positions of main between the parsing of lof.txt and the updates   *)
(* of the leafs                                                            *)
AfterParsing ==
    {"new_leaves", "rnodes", "load", "match", "branch_to_pk", "insert", "families",
     "leaves"}

(* C11, as claimed: once both files are parsed every leaf's parent branch  *)
(* is empty or a key of the family map, and when the updates of the leafs  *)
(* begin every parent branch has a pk in branch_to_pk.                     *)
C11_LeafParentIsFamily ==
    /\ pc \in AfterParsing =>
          \A l \in DOMAIN languages :
              languages[l].branch = <<>> \/ languages[l].branch \in DOMAIN families
    /\ pc = "leaves" =>
          \A l \in DOMAIN languages :
              languages[l].branch = <<>> \/ languages[l].branch \in DOMAIN branch_to_pk

(* the positions of main after the matching loop *)
AfterMatching == {"branch_to_pk", "insert", "families", "leaves", "sweep", "done"}

Retirements ==
    {i \in DOMAIN languoids :
        /\ languoids[i].level = "family"
        /\ ~languoids[i].active
        /\ languoids[i].replacement # NoPk}

(* C12, as claimed: after the matching loop every old family node has      *)
(* exactly one Migration, no branch is the hid of two Migrations (the      *)
(* assertion of line 345 holds), every pointer has a pk in branch_to_pk,   *)
(* and in the instruction list the replacement of a retired node is the pk *)
(* of another family node that the list leaves active and does not retire. *)
C12_OneMigrationLivePointers ==
    /\ pc \in AfterMatching =>
          \A r \in oldnodes : Cardinality({i \in DOMAIN todo : todo[i].pk = r.pk}) = 1
    /\ pc = "branch_to_pk" => BranchToPk(todo, [ok |-> TRUE, map |-> Empty]).ok
    /\ pc = "families" =>
          \A i \in DOMAIN todo :
              todo[i].pointer # <<>> => todo[i].pointer \in DOMAIN branch_to_pk
    /\ pc = "done" =>
          \A i \in Retirements :
              /\ languoids[i].replacement # languoids[i].pk
              /\ \E j \in DOMAIN languoids :
                    /\ languoids[j].pk = languoids[i].replacement
                    /\ languoids[j].level = "family"
              /\ \A j \in DOMAIN languoids :
                    languoids[j].pk = languoids[i].replacement => languoids[j].active
====
